---- MODULE Spec2Model ----
(***************************************************************************)
(* Model of completed/disk_cpu_load.py: fetch_stat, compute_cpu_load and   *)
(* main (from the block-device check on line 110 to the exit status).      *)
(*                                                                         *)
(* Text is modelled as sequences of one-character strings.  A load value   *)
(* (the result of Python's true division) is modelled exactly, as the pair *)
(* num/den of the dividend and the divisor; the rounding of the quotient   *)
(* to a double is not modelled.                                            *)
(***************************************************************************)
EXTENDS Integers, Sequences, FiniteSets, TLC

VARIABLES
    pc,              \* position in main() / in the function under study
    is_block_device, \* pathlib.Path(disk).is_block_device()
    max_load,        \* args.max_load
    xfer,            \* args.xfer
    verbose,         \* args.verbose
    dev_size,        \* size of the device in bytes
    stat_lines,      \* content of the statistics source handed to fetch_stat
    start_cpu,       \* result of the first fetch_stat()
    end_cpu,         \* result of the second fetch_stat()
    cpu_load,        \* result of compute_cpu_load()
    fd,              \* the device handle: state, read position
    loop_i,          \* iterations done of "for _ in range(args.xfer)"
    calls,           \* history: the calls made so far, in order
    out,             \* what was printed
    exc,             \* the exception propagating out of main(), or "None"
    exit_code        \* the process's exit status, or -1 while running

vars == <<pc, is_block_device, max_load, xfer, verbose, dev_size, stat_lines,
          start_cpu, end_cpu, cpu_load, fd, loop_i, calls, out, exc, exit_code>>

----------------------------------------------------------------------------
(* Bounds of the model *)

MaxLines == 2    \* lines in a statistics source
MaxXfer == 2     \* largest --xfer
MaxTick == 1     \* largest counter value in a drawn sample
MaxFields == 4   \* most fields in a drawn sample

----------------------------------------------------------------------------
(* Text *)

Whitespace == {" ", "\t", "\n"}

Digits == <<"0", "1", "2", "3", "4", "5", "6", "7", "8", "9">>

IsDigit(c) == \E d \in 1..10 : Digits[d] = c

DigitVal(c) == (CHOOSE d \in 1..10 : Digits[d] = c) - 1

\* str.strip(): drop leading and trailing whitespace
RECURSIVE LStrip(_)
LStrip(s) ==
    IF s # <<>> /\ Head(s) \in Whitespace THEN LStrip(Tail(s)) ELSE s

RECURSIVE RStrip(_)
RStrip(s) ==
    IF s # <<>> /\ s[Len(s)] \in Whitespace
    THEN RStrip(SubSeq(s, 1, Len(s) - 1))
    ELSE s

strip(s) == RStrip(LStrip(s))

\* str.split(): the maximal runs of non-whitespace characters, in order
RECURSIVE SplitFrom(_, _, _)
SplitFrom(s, cur, acc) ==
    IF s = <<>>
    THEN IF cur = <<>> THEN acc ELSE Append(acc, cur)
    ELSE IF Head(s) \in Whitespace
         THEN SplitFrom(Tail(s), <<>>,
                        IF cur = <<>> THEN acc ELSE Append(acc, cur))
         ELSE SplitFrom(Tail(s), Append(cur, Head(s)), acc)

split(s) == SplitFrom(s, <<>>, <<>>)

\* int(num) on a token: an optional sign, then one or more decimal digits
Unsigned(tok) ==
    IF tok # <<>> /\ Head(tok) \in {"+", "-"} THEN Tail(tok) ELSE tok

IntParses(tok) ==
    /\ Unsigned(tok) # <<>>
    /\ \A k \in 1..Len(Unsigned(tok)) : IsDigit(Unsigned(tok)[k])

RECURSIVE DecimalValue(_, _)
DecimalValue(ds, acc) ==
    IF ds = <<>> THEN acc
    ELSE DecimalValue(Tail(ds), acc * 10 + DigitVal(Head(ds)))

int(tok) ==
    IF Head(tok) = "-"
    THEN 0 - DecimalValue(Unsigned(tok), 0)
    ELSE DecimalValue(Unsigned(tok), 0)

----------------------------------------------------------------------------
(* fetch_stat *)

CpuMarker == <<"c", "p", "u">>

Returned(v) == [exc |-> "None", val |-> v]

Raised(e) == [exc |-> e, val |-> <<>>]

\* [int(num) for num in words[1:]]
ParseFields(words) ==
    IF \A k \in 2..Len(words) : IntParses(words[k])
    THEN Returned([k \in 1..(Len(words) - 1) |-> int(words[k + 1])])
    ELSE Raised("ValueError")

\* [line.strip().split() for line in lines]
WordsOf(lines) == [k \in 1..Len(lines) |-> split(strip(lines[k]))]

\* has this line's word list the aggregate marker in front (line 39)
IsAggregate(words) == words[1] = CpuMarker

\* the for loop of lines 38-42, from the k-th word list on
RECURSIVE ScanFrom(_, _)
ScanFrom(wl, k) ==
    IF k > Len(wl) THEN Raised("OSError")
    ELSE IF wl[k] = <<>> THEN Raised("IndexError")
    ELSE IF IsAggregate(wl[k]) THEN ParseFields(wl[k])
    ELSE ScanFrom(wl, k + 1)

\* a statistics source is either unreadable or a sequence of lines
Unreadable == [readable |-> FALSE, lines |-> <<>>]

Source(lines) == [readable |-> TRUE, lines |-> lines]

fetch_stat(stat_file) ==
    IF ~stat_file.readable THEN Raised("FileNotFoundError")
    ELSE ScanFrom(WordsOf(stat_file.lines), 1)

----------------------------------------------------------------------------
(* compute_cpu_load *)

RECURSIVE sum(_)
sum(stat) == IF stat = <<>> THEN 0 ELSE Head(stat) + sum(Tail(stat))

\* index 3 of a Python list is the 4th element
IdleIndex == 4

NoLoad == [exc |-> "None", num |-> 0, den |-> 0]

LoadRaised(e) == [exc |-> e, num |-> 0, den |-> 0]

\* the value num / den
Load(n, d) == [exc |-> "None", num |-> n, den |-> d]

\* variant: the idle field taken at the 3rd position instead of the 4th
diff_idle_third(start_stat, end_stat) == end_stat[3] - start_stat[3]

diff_idle(start_stat, end_stat) == end_stat[IdleIndex] - start_stat[IdleIndex]

diff_total(start_stat, end_stat) == sum(end_stat) - sum(start_stat)

\* variant: the idle time is not taken out of the used time
diff_used_with_idle(start_stat, end_stat) == diff_total(start_stat, end_stat)

diff_used(start_stat, end_stat) ==
    diff_total(start_stat, end_stat) - diff_idle(start_stat, end_stat)

\* the lines printed by compute_cpu_load (lines 54-58)
compute_prints(start_stat, end_stat, v) ==
    IF v /\ Len(start_stat) >= IdleIndex /\ Len(end_stat) >= IdleIndex
    THEN << <<"Start CPU time", sum(start_stat)>>,
            <<"End CPU time", sum(end_stat)>>,
            <<"CPU time used", diff_used(start_stat, end_stat)>>,
            <<"Total elapsed time", diff_total(start_stat, end_stat)>> >>
    ELSE <<>>

\* variant: no guard on an empty window
compute_cpu_load_unguarded(start_stat, end_stat, v) ==
    IF Len(end_stat) < IdleIndex \/ Len(start_stat) < IdleIndex
    THEN LoadRaised("IndexError")
    ELSE Load(diff_used(start_stat, end_stat) * 100,
              diff_total(start_stat, end_stat))

compute_cpu_load(start_stat, end_stat, v) ==
    IF Len(end_stat) < IdleIndex \/ Len(start_stat) < IdleIndex
    THEN LoadRaised("IndexError")
    ELSE IF diff_total(start_stat, end_stat) = 0
         THEN Load(0, 1)
         ELSE Load(diff_used(start_stat, end_stat) * 100,
                   diff_total(start_stat, end_stat))

\* variant: the comparison made on the truncated load that is printed
ExceedsTruncated(load, ceiling) ==
    (IF (load.num < 0) = (load.den < 0)
     THEN (IF load.num < 0 THEN 0 - load.num ELSE load.num)
              \div (IF load.den < 0 THEN 0 - load.den ELSE load.den)
     ELSE 0 - ((IF load.num < 0 THEN 0 - load.num ELSE load.num)
              \div (IF load.den < 0 THEN 0 - load.den ELSE load.den)))
        > ceiling

\* cpu_load > args.max_load (line 139), on the exact quotient
Exceeds(load, ceiling) ==
    IF load.den > 0
    THEN load.num > ceiling * load.den
    ELSE load.num < ceiling * load.den

Abs(n) == IF n < 0 THEN 0 - n ELSE n

\* int(cpu_load) (line 136): truncation toward zero
Truncated(load) ==
    IF (load.num < 0) = (load.den < 0)
    THEN Abs(load.num) \div Abs(load.den)
    ELSE 0 - (Abs(load.num) \div Abs(load.den))

----------------------------------------------------------------------------
(* Inputs *)

\* lines a statistics source may hold
AggZero == <<"c","p","u"," ","0"," ","0"," ","0"," ","0">>
Agg25 == <<"c","p","u"," ","1"," ","0"," ","0"," ","3">>
Agg30 == <<"c","p","u"," "," ","3"," ","0"," ","0"," ","7","\n">>
Agg30x == <<"\t","c","p","u"," ","4"," ","0"," ","0"," ","9"," ","0","\n">>
Agg45 == <<"c","p","u"," ","9"," ","0"," ","0"," ","1","1">>
AggShort == <<"c","p","u"," ","1"," ","2","\n">>
AggBad == <<"c","p","u"," ","1"," ","x"," ","0"," ","3">>
PerCore == <<"c","p","u","0"," ","5"," ","0"," ","0"," ","5","\n">>
Other == <<"i","n","t","r"," ","7","\n">>
Blank == <<"\n">>
Spaces == <<" "," ","\n">>

StatLines ==
    {AggZero, Agg25, Agg30, Agg30x, Agg45, AggShort, AggBad, PerCore, Other,
     Blank, Spaces}

RECURSIVE SeqsUpTo(_, _)
SeqsUpTo(S, n) ==
    IF n = 0 THEN {<<>>}
    ELSE LET shorter == SeqsUpTo(S, n - 1)
         IN shorter \cup {Append(q, x) : q \in shorter, x \in S}

StatSources == {Unreadable} \cup {Source(ls) : ls \in SeqsUpTo(StatLines, MaxLines)}

block_size == 2^20

DevSizes == {0, block_size \div 2, block_size + 1, (MaxXfer + 2) * block_size}

MaxLoads == {0, 30}

Xfers == (0 - 1)..MaxXfer

----------------------------------------------------------------------------
(* main *)

Call(op) == [op |-> op, off |-> 0, req |-> 0, got |-> 0]

ReadCall(off, req, got) == [op |-> "read", off |-> off, req |-> req, got |-> got]

NoHandle == [state |-> "none", pos |-> 0]

Min(a, b) == IF a < b THEN a ELSE b

\* bytes a read of n bytes at position p returns
ReadLen(p, n) == Min(n, dev_size - p)

Init ==
    /\ pc = "check_device"
    /\ is_block_device \in BOOLEAN
    /\ max_load \in MaxLoads
    /\ xfer \in Xfers
    /\ verbose \in BOOLEAN
    /\ dev_size \in DevSizes
    /\ stat_lines = Unreadable
    /\ start_cpu = <<>>
    /\ end_cpu = <<>>
    /\ cpu_load = NoLoad
    /\ fd = NoHandle
    /\ loop_i = 0
    /\ calls = <<>>
    /\ out = <<>>
    /\ exc = "None"
    /\ exit_code = -1

\* variant: the exception is caught and dropped, the run ends quietly
PropagateSwallowed(e, log) ==
    /\ exc' = e
    /\ out' = out
    /\ exit_code' = 0
    /\ calls' = log
    /\ pc' = "done"

\* an exception leaves main(): the interpreter prints the traceback and the
\* process ends with status 1
Propagate(e, log) ==
    /\ exc' = e
    /\ out' = Append(out, <<"Traceback", e>>)
    /\ exit_code' = 1
    /\ calls' = log
    /\ pc' = "done"

\* lines 110-115
CheckDevice ==
    /\ pc = "check_device"
    /\ IF ~is_block_device
       THEN /\ out' = Append(out, <<"Unknown block device">>)
            /\ exit_code' = 1
            /\ pc' = "done"
       ELSE /\ out' = out \o << <<"Testing CPU load when reading", xfer>>,
                                <<"Maximum acceptable CPU load is", max_load>> >>
            /\ exit_code' = exit_code
            /\ pc' = "fetch_start"
    /\ UNCHANGED <<is_block_device, max_load, xfer, verbose, dev_size,
                   stat_lines, start_cpu, end_cpu, cpu_load, fd, loop_i,
                   calls, exc>>

\* variant: a failed first sample is taken once more
FetchStartRetry ==
    /\ pc = "fetch_start"
    /\ \E src \in StatSources :
         LET r == fetch_stat(src)
             log == Append(calls, Call("fetch_stat"))
         IN IF r.exc # "None"
            THEN IF calls = <<>>
                 THEN /\ calls' = log
                      /\ UNCHANGED <<pc, out, exc, exit_code, start_cpu>>
                 ELSE /\ exc' = r.exc
                      /\ out' = Append(out, <<"Traceback", r.exc>>)
                      /\ exit_code' = 1
                      /\ calls' = log
                      /\ pc' = "done"
                      /\ start_cpu' = start_cpu
            ELSE /\ start_cpu' = r.val
                 /\ calls' = log
                 /\ out' = Append(out, <<"Beginning disk read....">>)
                 /\ pc' = "open_disk"
                 /\ UNCHANGED <<exc, exit_code>>
    /\ UNCHANGED <<is_block_device, max_load, xfer, verbose, dev_size,
                   stat_lines, end_cpu, cpu_load, fd, loop_i>>

\* lines 120-122
FetchStart ==
    /\ pc = "fetch_start"
    /\ \E src \in StatSources :
         LET r == fetch_stat(src)
             log == Append(calls, Call("fetch_stat"))
         IN IF r.exc # "None"
            THEN /\ Propagate(r.exc, log)
                 /\ start_cpu' = start_cpu
            ELSE /\ start_cpu' = r.val
                 /\ calls' = log
                 /\ out' = Append(out, <<"Beginning disk read....">>)
                 /\ pc' = "open_disk"
                 /\ UNCHANGED <<exc, exit_code>>
    /\ UNCHANGED <<is_block_device, max_load, xfer, verbose, dev_size,
                   stat_lines, end_cpu, cpu_load, fd, loop_i>>

\* lines 124-125: open(disk, 'rb') and the flush, which does nothing on a
\* handle opened for reading
OpenDisk ==
    /\ pc = "open_disk"
    /\ \E opened \in BOOLEAN :
         LET log == Append(calls, Call("open"))
         IN IF opened
            THEN /\ fd' = [state |-> "open", pos |-> 0]
                 /\ calls' = Append(log, Call("flush"))
                 /\ pc' = "read_loop"
                 /\ UNCHANGED <<out, exc, exit_code>>
            ELSE /\ Propagate("OSError", log)
                 /\ fd' = fd
    /\ UNCHANGED <<is_block_device, max_load, xfer, verbose, dev_size,
                   stat_lines, start_cpu, end_cpu, cpu_load, loop_i>>

\* variant: the handle is left as it is
Unreleased(handle) == handle

\* leaving the with block closes the handle
Closed(handle) == [handle EXCEPT !.state = "closed"]

\* variant: the loop also stops at the end of the device
range_exhausted_or_eof == loop_i >= xfer \/ fd.pos >= dev_size

\* "for _ in range(args.xfer)" has no iteration left
range_exhausted == loop_i >= xfer

\* lines 126-127: one iteration of the loop
ReadBlock ==
    /\ pc = "read_loop"
    /\ ~range_exhausted
    /\ \E done \in BOOLEAN :
         LET log == Append(calls, ReadCall(fd.pos, block_size,
                                           IF done THEN ReadLen(fd.pos, block_size) ELSE 0))
         IN IF done
            THEN /\ fd' = [fd EXCEPT !.pos = fd.pos + ReadLen(fd.pos, block_size)]
                 /\ loop_i' = loop_i + 1
                 /\ calls' = log
                 /\ UNCHANGED <<pc, out, exc, exit_code>>
            ELSE /\ fd' = Closed(fd)
                 /\ loop_i' = loop_i
                 /\ Propagate("OSError", Append(log, Call("close")))
    /\ UNCHANGED <<is_block_device, max_load, xfer, verbose, dev_size,
                   stat_lines, start_cpu, end_cpu, cpu_load>>

\* lines 126-129: range(args.xfer) is exhausted, the with block ends
EndReadLoop ==
    /\ pc = "read_loop"
    /\ range_exhausted
    /\ fd' = Closed(fd)
    /\ calls' = Append(calls, Call("close"))
    /\ out' = Append(out, <<"Disk read complete!">>)
    /\ pc' = "fetch_end"
    /\ UNCHANGED <<is_block_device, max_load, xfer, verbose, dev_size,
                   stat_lines, start_cpu, end_cpu, cpu_load, loop_i, exc,
                   exit_code>>

\* line 132
FetchEnd ==
    /\ pc = "fetch_end"
    /\ \E src \in StatSources :
         LET r == fetch_stat(src)
             log == Append(calls, Call("fetch_stat"))
         IN IF r.exc # "None"
            THEN /\ Propagate(r.exc, log)
                 /\ end_cpu' = end_cpu
            ELSE /\ end_cpu' = r.val
                 /\ calls' = log
                 /\ pc' = "compute"
                 /\ UNCHANGED <<out, exc, exit_code>>
    /\ UNCHANGED <<is_block_device, max_load, xfer, verbose, dev_size,
                   stat_lines, start_cpu, cpu_load, fd, loop_i>>

\* lines 134-136
Compute ==
    /\ pc = "compute"
    /\ LET r == compute_cpu_load(start_cpu, end_cpu, verbose)
           log == Append(calls, Call("compute_cpu_load"))
       IN IF r.exc # "None"
          THEN /\ Propagate(r.exc, log)
               /\ cpu_load' = cpu_load
          ELSE /\ cpu_load' = r
               /\ calls' = log
               /\ out' = out \o compute_prints(start_cpu, end_cpu, verbose)
                             \o << <<"Detected disk read CPU load is", Truncated(r)>> >>
               /\ pc' = "compare"
               /\ UNCHANGED <<exc, exit_code>>
    /\ UNCHANGED <<is_block_device, max_load, xfer, verbose, dev_size,
                   stat_lines, start_cpu, end_cpu, fd, loop_i>>

\* lines 139-143
Compare ==
    /\ pc = "compare"
    /\ IF Exceeds(cpu_load, max_load)
       THEN /\ out' = Append(out, <<"*** DISK CPU LOAD TEST HAS FAILED! ***">>)
            /\ exit_code' = 1
       ELSE /\ out' = out
            /\ exit_code' = 0
    /\ pc' = "done"
    /\ UNCHANGED <<is_block_device, max_load, xfer, verbose, dev_size,
                   stat_lines, start_cpu, end_cpu, cpu_load, fd, loop_i,
                   calls, exc>>

Next ==
    \/ CheckDevice
    \/ FetchStart
    \/ OpenDisk
    \/ ReadBlock
    \/ EndReadLoop
    \/ FetchEnd
    \/ Compute
    \/ Compare

Spec == Init /\ [][Next]_vars

----------------------------------------------------------------------------
(* fetch_stat on its own: one call on a drawn statistics source *)

InitFetch ==
    /\ pc = "fetch_stat"
    /\ stat_lines \in StatSources
    /\ is_block_device = TRUE
    /\ max_load = 30
    /\ xfer = 0
    /\ verbose = FALSE
    /\ dev_size = 0
    /\ start_cpu = <<>>
    /\ end_cpu = <<>>
    /\ cpu_load = NoLoad
    /\ fd = NoHandle
    /\ loop_i = 0
    /\ calls = <<>>
    /\ out = <<>>
    /\ exc = "None"
    /\ exit_code = -1

FetchStatCall ==
    /\ pc = "fetch_stat"
    /\ start_cpu' = fetch_stat(stat_lines).val
    /\ exc' = fetch_stat(stat_lines).exc
    /\ calls' = Append(calls, Call("fetch_stat"))
    /\ pc' = "returned"
    /\ UNCHANGED <<is_block_device, max_load, xfer, verbose, dev_size,
                   stat_lines, end_cpu, cpu_load, fd, loop_i, out, exit_code>>

NextFetch == FetchStatCall

SpecFetch == InitFetch /\ [][NextFetch]_vars

----------------------------------------------------------------------------
(* compute_cpu_load on its own: one call on two drawn samples *)

ExampleStart == <<100, 0, 50, 500>>
ExampleEnd == <<150, 0, 80, 620>>
ProcStatStart == <<47, 1, 11, 162, 5, 0, 2, 0, 0, 0>>
ProcStatEnd == <<52, 1, 14, 170, 7, 0, 3, 0, 0, 0>>
IdleJump == <<0, 0, 0, 3>>

Samples ==
    UNION {[1..n -> 0..MaxTick] : n \in 3..MaxFields}
        \cup {ExampleStart, ExampleEnd, ProcStatStart, ProcStatEnd, IdleJump}

InitCompute ==
    /\ pc = "compute_cpu_load"
    /\ start_cpu \in Samples
    /\ end_cpu \in Samples
    /\ verbose \in BOOLEAN
    /\ stat_lines = Unreadable
    /\ is_block_device = TRUE
    /\ max_load = 30
    /\ xfer = 0
    /\ dev_size = 0
    /\ cpu_load = NoLoad
    /\ fd = NoHandle
    /\ loop_i = 0
    /\ calls = <<>>
    /\ out = <<>>
    /\ exc = "None"
    /\ exit_code = -1

ComputeCall ==
    /\ pc = "compute_cpu_load"
    /\ cpu_load' = compute_cpu_load(start_cpu, end_cpu, verbose)
    /\ exc' = compute_cpu_load(start_cpu, end_cpu, verbose).exc
    /\ out' = out \o compute_prints(start_cpu, end_cpu, verbose)
    /\ calls' = Append(calls, Call("compute_cpu_load"))
    /\ pc' = "returned"
    /\ UNCHANGED <<is_block_device, max_load, xfer, verbose, dev_size,
                   stat_lines, start_cpu, end_cpu, fd, loop_i, exit_code>>

NextCompute == ComputeCall

SpecCompute == InitCompute /\ [][NextCompute]_vars

----------------------------------------------------------------------------
(* Properties of main (under Spec) *)

\* the operations called so far, by name
Ops == [k \in 1..Len(calls) |-> calls[k].op]

Count(op) == Cardinality({k \in 1..Len(calls) : calls[k].op = op})

LastOp == IF calls = <<>> THEN "none" ELSE calls[Len(calls)].op

IsRead(c) == c.op = "read"

Reads == SelectSeq(calls, IsRead)

\* a load value was produced
Measured == cpu_load # NoLoad

\* the metric as the specification words it, computed from the two samples:
\* total time, and the time of every field but the 4th
Total(stat) ==
    LET upto[k \in 0..Len(stat)] == IF k = 0 THEN 0 ELSE upto[k - 1] + stat[k]
    IN upto[Len(stat)]

TotalDelta(s, e) == Total(e) - Total(s)

BusyDelta(s, e) == (Total(e) - e[4]) - (Total(s) - s[4])

\* 100 * busy / total > c, and 0 > c on an empty window
AboveCeiling(s, e, c) ==
    IF TotalDelta(s, e) = 0 THEN 0 > c
    ELSE IF TotalDelta(s, e) > 0
         THEN 100 * BusyDelta(s, e) > c * TotalDelta(s, e)
         ELSE 100 * BusyDelta(s, e) < c * TotalDelta(s, e)

\* C1: a finished run has exit code 1 when the target is no block device or
\* the measured load is above the ceiling, and 0 when the device is valid and
\* the measured load is at or below the ceiling; the comparison is strict and
\* made on the untruncated load (ceiling 30: load 25 gives 0, load 45 gives 1).
C1_ExitCode ==
    pc = "done" =>
        /\ exit_code \in {0, 1}
        /\ ~is_block_device => exit_code = 1
        /\ (is_block_device /\ Measured) =>
              exit_code = (IF AboveCeiling(start_cpu, end_cpu, max_load)
                           THEN 1 ELSE 0)
        /\ (Measured /\ max_load = 30 /\ start_cpu = <<0, 0, 0, 0>>) =>
              /\ end_cpu = <<1, 0, 0, 3>> => exit_code = 0
              /\ end_cpu = <<9, 0, 0, 11>> => exit_code = 1

\* a load exactly equal to the ceiling of 30 has passed
C1_Witness ==
    /\ pc = "done"
    /\ exit_code = 0
    /\ Measured
    /\ max_load = 30
    /\ cpu_load.num = 30 * cpu_load.den

Rank(p) ==
    CASE p = "check_device" -> 0
      [] p = "fetch_start" -> 1
      [] p = "open_disk" -> 2
      [] p = "read_loop" -> 3
      [] p = "fetch_end" -> 4
      [] p = "compute" -> 5
      [] p = "compare" -> 6
      [] p = "done" -> 7

\* the calls of a run that reached its verdict by evaluation: the start
\* sample, the open (and flush), xfer reads, the close, the end sample, the
\* computation, in this order and nothing else
EvaluatedOrder ==
    (pc = "done" /\ Measured) =>
        LET n == Len(calls)
            r == IF xfer > 0 THEN xfer ELSE 0
        IN /\ n = r + 6
           /\ Ops[1] = "fetch_stat"
           /\ Ops[2] = "open"
           /\ Ops[3] = "flush"
           /\ \A k \in 4..(n - 3) : Ops[k] = "read"
           /\ Ops[n - 2] = "close"
           /\ Ops[n - 1] = "fetch_stat"
           /\ Ops[n] = "compute_cpu_load"

\* every step leaves the stage as it is (a read) or moves to the next stage
\* or to the end; the verdict is given in the step that ends the run
ForwardStep ==
    /\ Rank(pc') >= Rank(pc)
    /\ (pc' # pc /\ pc' # "done") => Rank(pc') = Rank(pc) + 1
    /\ exit_code' # exit_code => (exit_code = -1 /\ pc' = "done")
    /\ \A k \in 1..Len(calls) : k <= Len(calls') /\ calls'[k] = calls[k]

\* C2: the run is linear, with no retry and no step back to an earlier stage:
\* in a run that ends by evaluation the start sample is taken once, before the
\* device is opened and before any read, all reads are between the two
\* samples, the end sample is taken once after the last read, and
\* compute_cpu_load is called once, after the end sample and before the verdict.
C2_Linear == [](EvaluatedOrder) /\ [][ForwardStep]_vars

C2_Witness ==
    /\ pc = "done"
    /\ Measured
    /\ xfer = 2
    /\ Len(calls) = 8
    /\ Count("fetch_stat") = 2

\* C3: once fetch_stat (start or end call) or the opening or reading of the
\* device has raised, the run is over: nothing was retried, no later stage
\* ran, there is no load value and no pass verdict, the traceback was printed
\* and the exit status is 1, never 0.
C3_FaultFatal ==
    exc # "None" =>
        /\ pc = "done"
        /\ exit_code = 1
        /\ cpu_load = NoLoad
        /\ out # <<>> /\ out[Len(out)] = <<"Traceback", exc>>
        /\ Count("fetch_stat") <= 2
        /\ Count("open") <= 1
        /\ \A k \in 1..(Len(calls) - 1) : Ops[k] # "compute_cpu_load"
        /\ LastOp \in {"fetch_stat", "open", "close", "compute_cpu_load"}
        /\ (LastOp = "fetch_stat" /\ Count("fetch_stat") = 1) =>
              (calls = <<Call("fetch_stat")>> /\ fd = NoHandle /\ start_cpu = <<>>)
        /\ LastOp = "open" => (fd = NoHandle /\ Reads = <<>>)
        /\ LastOp \in {"fetch_stat", "open", "close"} => end_cpu = <<>>

\* the end sample failed after a workload that was run
C3_Witness ==
    /\ exc # "None"
    /\ LastOp = "fetch_stat"
    /\ Count("fetch_stat") = 2
    /\ Reads # <<>>

\* the workload stage was left without a fault
WorkloadCompleted ==
    \/ pc \in {"fetch_end", "compute", "compare"}
    \/ pc = "done" /\ Count("fetch_stat") = 2

\* C6: for xfer >= 0 and every device size the workload issues exactly xfer
\* read calls of 2**20 bytes each, each at the position the one before it
\* ended at (never backward, never more than xfer); a read that returns fewer
\* bytes than asked for, or none, is no fault, and the count is still xfer.
C6_ExactReads ==
    /\ \A k \in 1..Len(Reads) :
          /\ Reads[k].req = 1048576
          /\ Reads[k].got >= 0 /\ Reads[k].got <= Reads[k].req
          /\ Reads[k].off = (IF k = 1 THEN 0
                             ELSE Reads[k - 1].off + Reads[k - 1].got)
    /\ Len(Reads) <= (IF xfer > 0 THEN xfer ELSE 0)
    /\ (xfer >= 0 /\ WorkloadCompleted) => Len(Reads) = xfer

\* a device of less than two blocks: a short read, then an empty one
C6_Witness ==
    /\ pc = "fetch_end"
    /\ xfer = 2
    /\ Len(Reads) = 2
    /\ Reads[1].got > 0 /\ Reads[1].got < Reads[1].req
    /\ Reads[2].got = 0

\* C9: the handle is released on every way out of the workload stage: it is
\* open only inside the read loop, closed when the end sample is taken and in
\* every later state, whether the run passed, failed or was ended by a fault;
\* the device is opened at most once.
C9_HandleReleased ==
    /\ fd.state = "open" => pc = "read_loop"
    /\ pc = "fetch_end" => fd.state = "closed"
    /\ pc \in {"fetch_end", "compute", "compare", "done"} => fd.state # "open"
    /\ Count("open") <= 1
    /\ Count("close") <= Count("open")

\* a read raised after an earlier read, and the handle is closed
C9_Witness ==
    /\ pc = "done"
    /\ exc = "OSError"
    /\ LastOp = "close"
    /\ Len(Reads) >= 2
    /\ fd.state = "closed"

----------------------------------------------------------------------------
(* Properties of compute_cpu_load (under SpecCompute) *)

AtLeastFour(s, e) == Len(s) >= 4 /\ Len(e) >= 4

\* C4: for samples of at least 4 fields whose totals differ, the result is
\* the real number diffUsed * 100 / diffTotal, the used time being the total
\* time less the time of the field at index 3 alone; the samples
\* [100, 0, 50, 500] and [150, 0, 80, 620] give 40; the verbose flag does not
\* change the result.
C4_LoadFormula ==
    (pc = "returned" /\ AtLeastFour(start_cpu, end_cpu)) =>
        /\ TotalDelta(start_cpu, end_cpu) # 0 =>
              /\ cpu_load.exc = "None"
              /\ cpu_load.den # 0
              /\ cpu_load.num * TotalDelta(start_cpu, end_cpu)
                    = 100 * BusyDelta(start_cpu, end_cpu) * cpu_load.den
        /\ (start_cpu = ExampleStart /\ end_cpu = ExampleEnd) =>
              /\ TotalDelta(start_cpu, end_cpu) = 200
              /\ BusyDelta(start_cpu, end_cpu) = 80
              /\ cpu_load.num = 40 * cpu_load.den
        /\ compute_cpu_load(start_cpu, end_cpu, TRUE)
              = compute_cpu_load(start_cpu, end_cpu, FALSE)

\* the example of the specification, computed verbosely
C4_Witness ==
    /\ pc = "returned"
    /\ start_cpu = ExampleStart
    /\ end_cpu = ExampleEnd
    /\ verbose
    /\ Len(out) = 4
    /\ cpu_load.num = 40 * cpu_load.den

\* C5: for two samples with equal totals the result is exactly 0, whatever
\* the fields are (the idle field may differ), and no result is a division by
\* zero.
C5_EmptyWindow ==
    (pc = "returned" /\ AtLeastFour(start_cpu, end_cpu)) =>
        /\ cpu_load.exc = "None"
        /\ cpu_load.den # 0
        /\ TotalDelta(start_cpu, end_cpu) = 0 => cpu_load.num = 0

\* equal totals with the idle field changed
C5_Witness ==
    /\ pc = "returned"
    /\ AtLeastFour(start_cpu, end_cpu)
    /\ TotalDelta(start_cpu, end_cpu) = 0
    /\ end_cpu[4] # start_cpu[4]
    /\ cpu_load.num = 0

\* every field of e is at least the same field of s
Monotone(s, e) ==
    /\ Len(s) = Len(e)
    /\ Len(s) >= 4
    /\ \A k \in 1..Len(s) : e[k] >= s[k]

\* the load lies in [lo, hi]
LoadWithin(l, lo, hi) ==
    /\ l.exc = "None"
    /\ l.den > 0
    /\ lo * l.den <= l.num
    /\ l.num <= hi * l.den

\* C10: for samples of equal length (at least 4 fields) with every field of
\* end at least the field of start, the result lies in [0, 100]; it is 0 when
\* only the idle field advances and 100 when the idle field is frozen while
\* the total advances; with only sum(end) >= sum(start) and
\* end[3] >= start[3] the result is still at most 100.
C10_Range ==
    (pc = "returned" /\ AtLeastFour(start_cpu, end_cpu)) =>
        /\ Monotone(start_cpu, end_cpu) => LoadWithin(cpu_load, 0, 100)
        /\ (/\ Len(start_cpu) = Len(end_cpu)
            /\ \A k \in 1..Len(start_cpu) : k # 4 => end_cpu[k] = start_cpu[k]
            /\ end_cpu[4] >= start_cpu[4]) => LoadWithin(cpu_load, 0, 0)
        /\ (/\ end_cpu[4] = start_cpu[4]
            /\ TotalDelta(start_cpu, end_cpu) > 0) => LoadWithin(cpu_load, 100, 100)
        /\ (/\ TotalDelta(start_cpu, end_cpu) >= 0
            /\ end_cpu[4] >= start_cpu[4]) =>
              (cpu_load.den > 0 /\ cpu_load.num <= 100 * cpu_load.den)

\* under the weaker condition alone the result can be negative
C10_Witness ==
    /\ pc = "returned"
    /\ AtLeastFour(start_cpu, end_cpu)
    /\ TotalDelta(start_cpu, end_cpu) >= 0
    /\ end_cpu[4] >= start_cpu[4]
    /\ cpu_load.den > 0
    /\ cpu_load.num < 0

----------------------------------------------------------------------------
(* Properties of fetch_stat (under SpecFetch) *)

FirstWord(line) ==
    IF split(strip(line)) = <<>> THEN <<>> ELSE split(strip(line))[1]

AggregateLines(lines) == {k \in 1..Len(lines) : FirstWord(lines[k]) = CpuMarker}

\* the first line whose leading token is the marker
FirstAggregate(lines) ==
    CHOOSE k \in AggregateLines(lines) : \A m \in AggregateLines(lines) : k <= m

AllParse(words) == \A k \in 2..Len(words) : IntParses(words[k])

\* the errors fetch_stat raises on purpose for malformed content: the OSError
\* of line 42 and the ValueError of int()
MalformedStats == {"OSError", "ValueError"}

\* C7: fetch_stat on a readable source with no line whose first token is
\* "cpu" raises MalformedStats, whatever the content (empty, per-core lines
\* only, blank or whitespace-only lines); so does a token of the aggregate
\* line that is no integer.
C7_NoAggregateRaises ==
    (pc = "returned" /\ stat_lines.readable) =>
        /\ AggregateLines(stat_lines.lines) = {} => exc \in MalformedStats
        /\ (/\ AggregateLines(stat_lines.lines) # {}
            /\ ~AllParse(split(strip(
                   stat_lines.lines[FirstAggregate(stat_lines.lines)])))) =>
              exc \in MalformedStats

\* C8: for a source with an aggregate line, fetch_stat returns the tokens
\* after the marker of the line whose leading token is exactly "cpu" (never
\* of a per-core line, whatever the order of the lines), as integers, in
\* order, none dropped or added.
C8_AggregateFields ==
    (/\ pc = "returned"
     /\ stat_lines.readable
     /\ AggregateLines(stat_lines.lines) # {}
     /\ AllParse(split(strip(
            stat_lines.lines[FirstAggregate(stat_lines.lines)])))) =>
        LET words == split(strip(
                stat_lines.lines[FirstAggregate(stat_lines.lines)]))
        IN /\ exc = "None"
           /\ Len(start_cpu) = Len(words) - 1
           /\ \A k \in 1..Len(start_cpu) : start_cpu[k] = int(words[k + 1])

====
